---- MODULE Spec2Model ----
(***************************************************************************)
(* Model of gpt_zero_script.py: an e-paper control panel that mirrors a    *)
(* Home Assistant light.  Two execution contexts run the script's code:    *)
(* the main thread (main(): boot refresh, then the periodic loop) and the  *)
(* gpiozero callback thread that runs on_btn1..on_btn4.  They share the    *)
(* hub (over HTTP), the state_cache dict and the e-paper display.          *)
(***************************************************************************)
EXTENDS Integers, Sequences, FiniteSets, TLC

\* ---------------------------------------------------------------- config
WARM_K == 2700
NEUTRAL_K == 4000
COOL_K == 6000
\* seconds between two timer refreshes
REFRESH_INTERVAL == 15

\* Python's None for an optional integer: a value that no brightness,
\* brightness step (-25..280), mired, kelvin or stamp of the program takes
NONE == -1000

\* ---------------------------------------------------------------- bounds
\* number of timer-driven refreshes the main loop starts in one run
MaxTicks == 1
\* number of button presses delivered in one run
MaxPresses == 2
\* number of remote requests that fail or come back incomplete in one run
MaxFaults == 1
\* seconds of wall-clock time followed in the timed specification
MaxClock == 36

Threads == {"main", "cb"}
\* outcomes of one GET /api/states/<entity>:
\*   ok      - 200 with state and attributes
\*   absent  - network error, timeout or non-2xx (ha_get_state returns None)
\*   nostate - 200 whose JSON has attributes but no "state" key
\*   noattrs - 200 whose JSON has a state but no attributes
\*   bare    - 200 whose JSON has neither a "state" key nor attributes
Outcomes == {"ok", "absent", "nostate", "noattrs", "bare"}

\* the response carries the key / the attributes
HasState(o) == o \in {"ok", "noattrs"}
HasAttrs(o) == o \in {"ok", "nostate"}

\* ------------------------------------------------------- python helpers
Max(a, b) == IF a >= b THEN a ELSE b
Min(a, b) == IF a <= b THEN a ELSE b
Abs(a) == IF a >= 0 THEN a ELSE 0 - a
\* int(x / y) for non-negative x and positive y (checked against CPython
\* float division for every value the model uses)
IntDiv(x, y) == x \div y
\* Python truthiness of an optional integer: None and 0 are falsy
Truthy(x) == x # NONE /\ x # 0
\* Python "x or d"
OrDefault(x, d) == IF Truthy(x) THEN x ELSE d

\* ------------------------------------------------------------ HTTP reads
\* ha_get_state: the parsed JSON of entity e under outcome o, as a record
\* with every key present; none = TRUE stands for the None return.
NoData ==
  [none |-> TRUE, hasState |-> FALSE, state |-> "", brightness |-> NONE,
   color_temp |-> NONE, temperature |-> NONE]

ha_get_state(h, e, o) ==
  IF o = "absent" THEN NoData
  ELSE [none |-> FALSE,
        hasState |-> HasState(o),
        state |-> IF ~HasState(o) THEN ""
                  ELSE IF e = "light" THEN h.state
                  ELSE IF e = "weather" THEN "sunny"
                  ELSE IF h.adaptive THEN "on" ELSE "off",
        brightness |-> IF e = "light" /\ HasAttrs(o) THEN h.brightness ELSE NONE,
        color_temp |-> IF e = "light" /\ HasAttrs(o) THEN h.color_temp ELSE NONE,
        temperature |-> IF e = "weather" /\ HasAttrs(o) THEN 20 ELSE NONE]

UnknownLight ==
  [state |-> "unknown", brightness |-> NONE, brightness_pct |-> NONE,
   kelvin |-> NONE, mired |-> NONE]

\* line 68 / line 96: data["state"] raises KeyError when the key is missing
RaisesKeyError(data) == ~data.none /\ ~data.hasState

BrightnessPct(bri) == IF bri # NONE THEN IntDiv(bri * 100, 255) ELSE NONE

\* faulty variant: a zero is missing from the numerator
KelvinOfMired_1e5(color_temp) ==
  IF Truthy(color_temp) THEN IntDiv(100000, color_temp) ELSE NONE

KelvinOfMired(color_temp) ==
  IF Truthy(color_temp) THEN IntDiv(1000000, color_temp) ELSE NONE

\* get_light_info on the response data (when it does not raise)
get_light_info(data) ==
  IF data.none THEN UnknownLight
  ELSE [state |-> data.state,
        brightness |-> data.brightness,
        brightness_pct |-> BrightnessPct(data.brightness),
        mired |-> data.color_temp,
        kelvin |-> KelvinOfMired(data.color_temp)]

\* get_weather_info on the response data (when it does not raise);
\* the absent weather (None) is the record with present = FALSE
NoWeather == [present |-> FALSE, temp |-> NONE, condition |-> ""]

get_weather_info(data) ==
  IF data.none THEN NoWeather
  ELSE IF data.temperature = NONE THEN NoWeather
  ELSE [present |-> TRUE, temp |-> data.temperature, condition |-> data.state]

\* faulty variant: a failed mode read counts as "on"
get_adaptive_on_DefaultOn(data) ==
  IF data.none THEN TRUE
  ELSE data.hasState /\ data.state = "on"

\* get_adaptive_on on the response data (never raises: data.get)
get_adaptive_on(data) ==
  IF data.none THEN FALSE
  ELSE data.hasState /\ data.state = "on"

\* --------------------------------------------------------- service calls
NoCall == [domain |-> "", service |-> "", brightness |-> NONE, color_temp |-> NONE]

\* faulty variant: the upper clamp is off by one
ClampBrightness_254(brightness) == Max(1, Min(254, brightness))

ClampBrightness(brightness) == Max(1, Min(255, brightness))

\* faulty variant: a zero is missing from the numerator
MiredOfKelvin_1e5(kelvin) == IntDiv(100000, kelvin)

MiredOfKelvin(kelvin) == IntDiv(1000000, kelvin)

\* set_light: the service call it issues.  brightness / kelvin are NONE
\* when the keyword argument is not supplied.
set_light(brightness, kelvin, toggle) ==
  IF toggle
  THEN [domain |-> "light", service |-> "toggle", brightness |-> NONE,
        color_temp |-> NONE]
  ELSE [domain |-> "light", service |-> "turn_on",
        brightness |-> IF brightness # NONE THEN ClampBrightness(brightness) ELSE NONE,
        color_temp |-> IF kelvin # NONE THEN MiredOfKelvin(kelvin) ELSE NONE]

presets == <<WARM_K, NEUTRAL_K, COOL_K>>

\* faulty variant: the last index holding the smallest difference
NearestIdx_Last(current_k) ==
  LET diffs == [i \in 1..Len(presets) |-> Abs(current_k - presets[i])]
      m == CHOOSE d \in {diffs[i] : i \in 1..Len(presets)} :
             \A i \in 1..Len(presets) : d <= diffs[i]
  IN  CHOOSE i \in 1..Len(presets) :
        diffs[i] = m /\ \A j \in (i + 1)..Len(presets) : diffs[j] # m

\* diffs.index(min(diffs)): the first index holding the smallest difference
NearestIdx(current_k) ==
  LET diffs == [i \in 1..Len(presets) |-> Abs(current_k - presets[i])]
      m == CHOOSE d \in {diffs[i] : i \in 1..Len(presets)} :
             \A i \in 1..Len(presets) : d <= diffs[i]
  IN  CHOOSE i \in 1..Len(presets) :
        diffs[i] = m /\ \A j \in 1..(i - 1) : diffs[j] # m

\* presets[(idx + 1) % len(presets)] with the 0-based idx of the code
NextKelvin(light_info) ==
  LET current_k == OrDefault(light_info.kelvin, NEUTRAL_K)
      idx == NearestIdx(current_k) - 1
  IN  presets[((idx + 1) % Len(presets)) + 1]

\* cycle_color_temp: the service call it issues
cycle_color_temp(light_info) ==
  set_light(light_info.brightness, NextKelvin(light_info), FALSE)

\* the hub (Home Assistant) applying a service call that reached it
HubApply(h, call) ==
  IF call.domain = "switch"
  THEN [h EXCEPT !.adaptive = (call.service = "turn_on")]
  ELSE IF call.service = "toggle"
  THEN [h EXCEPT !.state = IF h.state = "on" THEN "off" ELSE "on"]
  ELSE [h EXCEPT !.state = "on",
                 !.brightness = IF call.brightness # NONE THEN call.brightness ELSE @,
                 !.color_temp = IF call.color_temp # NONE THEN call.color_temp ELSE @]

\* ------------------------------------------------------------- rendering
\* draw_panel: what the bitmap shows (the clock line and the static legend
\* are left out).  brightness_pct / kelvin NONE means the part is omitted.
Panel(light_info, weather_info, adaptive_on) ==
  [lights |-> light_info.state,
   pct |-> light_info.brightness_pct,
   kelvin |-> light_info.kelvin,
   mode |-> IF adaptive_on THEN "MODE: NATURAL" ELSE "MODE: MANUAL",
   weather |-> weather_info.present,
   temp |-> weather_info.temp]

\* ------------------------------------------------------------------ state
VARIABLES
  hub,           \* the remote: light entity and adaptive switch
  state_cache,   \* the module-level dict: light, weather, adaptive
  tags,          \* history: which reconciliation wrote each state_cache key
  pc,            \* position of each thread
  rid,           \* the reconciliation a thread is executing, 0 when none
  nrec,          \* reconciliations started so far
  start,         \* history: the hub and the fault budget the behaviour begins with
  presses,       \* history: the buttons pressed so far, in order
  info,          \* on_btn2/3/4's local "info"
  current,       \* the get_adaptive_on() result on_btn1 / on_btn4 branch on
  sent,          \* history: the service call the running handler issued
  ncalls,        \* history: number of service calls issued
  image,         \* per thread: the bitmap draw_panel built and is pushing
  display,       \* what the e-paper shows (last completed epd.display)
  epdBusy,       \* threads that are inside epd.display
  nticks,        \* timer refreshes started so far
  nfaults,       \* remote requests that failed or came back incomplete so far
  during,        \* history: per thread, reconciliations started while its own runs
  mutPending,    \* history: a mutation was applied and no push began since
  owed,          \* history: stamp of the latest accepted trigger not yet served
  slept,         \* epd.sleep() was called
  got,           \* history: per thread, the outcome of each read of its reconciliation
  clock,         \* time.time(), in seconds since main() was entered
  now,           \* main()'s local "now"
  last,          \* main()'s local "last"
  ended          \* history: the time at which the latest reconciliation ended

vars ==
  <<hub, start, state_cache, tags, pc, rid, nrec, presses, info, current,
    sent, ncalls, image, display, epdBusy, nticks, nfaults, during,
    mutPending, owed, slept, got, clock, now, last, ended>>

timev == <<clock, now, last, ended>>

\* the hub as the behaviour found it
hub0 == start.hub

\* the button whose handler ran last, 0 before the first press
btn == IF presses = <<>> THEN 0 ELSE presses[Len(presses)]

\* no read of the reconciliation was made yet
NoReads == [light |-> "-", weather |-> "-", switch |-> "-"]

NoImage == [panel |-> Panel(UnknownLight, NoWeather, FALSE), srcs |-> {}]

RefreshPcs == {"rd_light", "rd_weather", "rd_adaptive", "draw", "pushing"}

\* the process is running: main() has neither returned nor died
Alive == pc["main"] \notin {"exit", "crashed"}

\* where refresh_display returns to
ReturnPc(t) == IF t = "main" THEN "loop" ELSE "idle"

\* the outcomes the next GET may have
MayOutcome(o) == o = "ok" \/ nfaults < start.faults
Fault(o) == IF o = "ok" THEN 0 ELSE 1

\* the hubs from which failing requests are explored
FaultHubs ==
  [state : {"on"}, brightness : {128}, color_temp : {370}, adaptive : BOOLEAN]

\* lines 194-198: the module-level reads that build state_cache at import
InitialCache(h, o) ==
  [light |-> get_light_info(ha_get_state(h, "light", o)),
   weather |-> get_weather_info(ha_get_state(h, "weather", o)),
   adaptive |-> get_adaptive_on(ha_get_state(h, "switch", o))]

InitCommon ==
  /\ tags = [light |-> 0, weather |-> 0, adaptive |-> 0]
  /\ rid = [t \in Threads |-> 0]
  /\ nrec = 0
  /\ presses = <<>>
  /\ info = UnknownLight
  /\ current = FALSE
  /\ sent = NoCall
  /\ ncalls = 0
  /\ image = [t \in Threads |-> NoImage]
  /\ epdBusy = {}
  /\ nticks = 0
  /\ nfaults = 0
  /\ during = [t \in Threads |-> 0]
  /\ mutPending = FALSE
  /\ owed = NONE
  /\ slept = FALSE
  /\ got = [t \in Threads |-> NoReads]
  /\ clock = 0 /\ now = 0 /\ last = 0 /\ ended = 0

\* the state when main() is entered: the display was cleared (line 135)
Init ==
  /\ hub \in FaultHubs
  /\ \E o \in {"ok", "absent"} : state_cache = InitialCache(hub, o)
  /\ pc = [t \in Threads |-> IF t = "main" THEN "boot" ELSE "idle"]
  /\ display = NoImage
  /\ start = [hub |-> hub, faults |-> MaxFaults, ticks |-> MaxTicks,
              timed |-> FALSE]
  /\ InitCommon

\* ------------------------------------------------------- refresh_display
\* the call of refresh_display by thread t: a new reconciliation starts
CallRefresh(t) ==
  /\ nrec' = nrec + 1
  /\ rid' = [rid EXCEPT ![t] = nrec + 1]
  /\ during' = [u \in Threads |->
                  IF u # t /\ rid[u] # 0 THEN during[u] + 1 ELSE 0]
  /\ got' = [got EXCEPT ![t] = NoReads]

\* the handler's locals are gone once the callback thread leaves it
LeaveHandler(t) ==
  IF t = "cb"
  THEN info' = UnknownLight /\ sent' = NoCall
  ELSE UNCHANGED <<info, sent>>

\* an exception leaves the thread's code: main() only catches
\* KeyboardInterrupt, so the main thread dies with a traceback; in the
\* callback thread the handler is abandoned, and the library either logs
\* and carries on or loses the thread
Raise(t) ==
  /\ rid' = [rid EXCEPT ![t] = 0]
  /\ during' = [during EXCEPT ![t] = 0]
  /\ LeaveHandler(t)
  /\ IF t = "main"
     THEN pc' = [pc EXCEPT ![t] = "crashed"]
     ELSE \E p \in {"idle", "dead"} : pc' = [pc EXCEPT ![t] = p]

\* line 201: state_cache["light"] = get_light_info()
RdLight(t) ==
  /\ Alive /\ pc[t] = "rd_light"
  /\ \E o \in Outcomes :
       LET data == ha_get_state(hub, "light", o) IN
       /\ MayOutcome(o)
       /\ nfaults' = nfaults + Fault(o)
       /\ got' = [got EXCEPT ![t].light = o]
       /\ IF RaisesKeyError(data)
          THEN Raise(t) /\ UNCHANGED <<state_cache, tags>>
          ELSE /\ state_cache' = [state_cache EXCEPT !.light = get_light_info(data)]
               /\ tags' = [tags EXCEPT !.light = rid[t]]
               /\ pc' = [pc EXCEPT ![t] = "rd_weather"]
               /\ UNCHANGED <<rid, during, info, sent>>
  /\ UNCHANGED <<hub, start, nrec, presses, current, ncalls, image, display,
                 epdBusy, nticks, mutPending, owed, slept, timev>>

\* line 202: state_cache["weather"] = get_weather_info()
RdWeather(t) ==
  /\ Alive /\ pc[t] = "rd_weather"
  /\ \E o \in Outcomes :
       LET data == ha_get_state(hub, "weather", o) IN
       /\ MayOutcome(o)
       /\ nfaults' = nfaults + Fault(o)
       /\ got' = [got EXCEPT ![t].weather = o]
       /\ IF RaisesKeyError(data)
          THEN Raise(t) /\ UNCHANGED <<state_cache, tags>>
          ELSE /\ state_cache' = [state_cache EXCEPT !.weather = get_weather_info(data)]
               /\ tags' = [tags EXCEPT !.weather = rid[t]]
               /\ pc' = [pc EXCEPT ![t] = "rd_adaptive"]
               /\ UNCHANGED <<rid, during, info, sent>>
  /\ UNCHANGED <<hub, start, nrec, presses, current, ncalls, image, display,
                 epdBusy, nticks, mutPending, owed, slept, timev>>

\* line 203: state_cache["adaptive"] = get_adaptive_on()
RdAdaptive(t) ==
  /\ Alive /\ pc[t] = "rd_adaptive"
  /\ \E o \in Outcomes :
       /\ MayOutcome(o)
       /\ nfaults' = nfaults + Fault(o)
       /\ got' = [got EXCEPT ![t].switch = o]
       /\ state_cache' = [state_cache EXCEPT
                            !.adaptive = get_adaptive_on(ha_get_state(hub, "switch", o))]
  /\ tags' = [tags EXCEPT !.adaptive = rid[t]]
  /\ pc' = [pc EXCEPT ![t] = "draw"]
  /\ UNCHANGED <<hub, start, rid, nrec, presses, info, current, sent, ncalls,
                 image, display, epdBusy, nticks, during, mutPending, owed,
                 slept, timev>>

\* what a panel shows of the light and the mode
Shown(p) == <<p.lights, p.pct, p.kelvin, p.mode>>

\* the panel of the hub's present state when every read succeeds
HubPanel(h) ==
  Panel(get_light_info(ha_get_state(h, "light", "ok")),
        get_weather_info(ha_get_state(h, "weather", "ok")),
        get_adaptive_on(ha_get_state(h, "switch", "ok")))

\* line 204 and draw_panel up to the call of epd.display: the three
\* state_cache keys are read, the bitmap is built and the push begins
Draw(t) ==
  /\ Alive /\ pc[t] = "draw"
  /\ image' = [image EXCEPT
                 ![t] = [panel |-> Panel(state_cache.light, state_cache.weather,
                                         state_cache.adaptive),
                         srcs |-> {tags.light, tags.weather, tags.adaptive}]]
  /\ mutPending' = FALSE
  /\ epdBusy' = epdBusy \cup {t}
  /\ pc' = [pc EXCEPT ![t] = "pushing"]
  /\ UNCHANGED <<hub, start, state_cache, tags, rid, nrec, presses, info,
                 current, sent, ncalls, display, nticks, nfaults, during, owed,
                 slept, got, timev>>

\* line 184: epd.display returns, then draw_panel and refresh_display return
PushDone(t) ==
  /\ Alive /\ pc[t] = "pushing"
  /\ display' = [image[t] EXCEPT !.srcs = {}]
  /\ image' = [image EXCEPT ![t] = NoImage]
  /\ epdBusy' = epdBusy \ {t}
  /\ owed' = IF owed # NONE /\ owed < rid[t] THEN NONE ELSE owed
  /\ rid' = [rid EXCEPT ![t] = 0]
  /\ during' = [during EXCEPT ![t] = 0]
  /\ LeaveHandler(t)
  /\ got' = [got EXCEPT ![t] = NoReads]
  /\ pc' = [pc EXCEPT ![t] = ReturnPc(t)]
  /\ last' = IF t # "main" THEN last        \* line 251: last = time.time()
             ELSE IF nticks = 0 THEN clock   \* line 257: last = now
             ELSE now
  /\ ended' = clock
  /\ UNCHANGED <<hub, start, state_cache, tags, nrec, presses, current,
                 ncalls, nticks, nfaults, mutPending, slept, clock, now>>

Refresh(t) ==
  \/ RdLight(t) \/ RdWeather(t) \/ RdAdaptive(t) \/ Draw(t) \/ PushDone(t)

\* --------------------------------------------------------------- buttons
\* The callback thread is the only writer of the hub, so the GETs and the
\* POST a handler makes before it calls refresh_display are one step: the
\* values they return do not depend on where the main thread is.

\* faulty variant: the POST is handed to a background worker and the
\* function returns before the request was made
ha_call_service_Deferred(call, applied) ==
  /\ UNCHANGED <<hub, mutPending, ncalls>>
  /\ sent' = NoCall

\* ha_call_service: the POST either reaches the hub, which applies the call,
\* or fails (logged, nothing raised)
ha_call_service(call, applied) ==
  /\ hub' = IF applied THEN HubApply(hub, call) ELSE hub
  /\ mutPending' = (mutPending \/ applied)
  /\ sent' = call
  /\ ncalls' = ncalls + 1

\* faulty variant: a callback is started while another handler is running
Pressed_Reentrant(b) ==
  /\ Alive /\ pc["cb"] # "dead"
  /\ Len(presses) < MaxPresses
  /\ presses' = Append(presses, b)

\* gpiozero invokes the when_pressed callback of button b; the pin factory
\* delivers the callbacks of all four buttons on its one callback thread,
\* so a callback starts when the previous one has returned
Pressed(b) ==
  /\ Alive /\ pc["cb"] = "idle"
  /\ Len(presses) < MaxPresses
  /\ presses' = Append(presses, b)

\* the handler of button b reaches its call of refresh_display
HandlerRefresh ==
  /\ owed' = nrec
  /\ CallRefresh("cb")
  /\ pc' = [pc EXCEPT !["cb"] = "rd_light"]

\* the brightness on_btn2 / on_btn3 pass to set_light (lines 220-221, 227-228)
StepBrightness(light_info, delta) == OrDefault(light_info.brightness, 128) + delta

\* faulty variant: the branches of on_btn1 are swapped
ToggleService_Swapped(cur) == IF cur THEN "turn_on" ELSE "turn_off"

\* lines 209-214: the switch service on_btn1 calls
ToggleService(cur) == IF cur THEN "turn_off" ELSE "turn_on"

\* on_btn1, lines 206-215, up to the call of refresh_display
on_btn1 ==
  /\ Pressed(1)
  /\ \E o \in Outcomes, applied \in BOOLEAN :
       LET cur == get_adaptive_on(ha_get_state(hub, "switch", o))
           f == Fault(o) + (IF applied THEN 0 ELSE 1) IN
       /\ nfaults + f <= start.faults
       /\ nfaults' = nfaults + f
       /\ current' = cur
       /\ ha_call_service([domain |-> "switch",
                           service |-> ToggleService(cur),
                           brightness |-> NONE, color_temp |-> NONE], applied)
  /\ HandlerRefresh
  /\ UNCHANGED <<start, state_cache, tags, info, image, display, epdBusy,
                 nticks, slept, timev>>

\* on_btn2 (delta = 25, lines 217-222) and on_btn3 (delta = -25, lines
\* 224-229), up to the call of refresh_display
BrightnessButton(b, delta) ==
  /\ Pressed(b)
  /\ \E o \in Outcomes, applied \in BOOLEAN :
       LET data == ha_get_state(hub, "light", o)
           raises == RaisesKeyError(data)
           f == Fault(o) + (IF applied \/ raises THEN 0 ELSE 1) IN
       /\ nfaults + f <= start.faults
       /\ nfaults' = nfaults + f
       /\ IF raises
          THEN /\ applied
               /\ Raise("cb")
               /\ UNCHANGED <<hub, mutPending, ncalls, nrec, owed, got>>
          ELSE /\ info' = get_light_info(data)
               /\ ha_call_service(
                    set_light(StepBrightness(get_light_info(data), delta), NONE, FALSE),
                    applied)
               /\ HandlerRefresh
  /\ UNCHANGED current
  /\ UNCHANGED <<start, state_cache, tags, image, display, epdBusy, nticks,
                 slept, timev>>

on_btn2 == BrightnessButton(2, 25)
on_btn3 == BrightnessButton(3, 0 - 25)

\* on_btn4, lines 231-239, up to the return at line 235 or the call of
\* refresh_display
on_btn4 ==
  /\ Pressed(4)
  /\ \E oa \in Outcomes, ol \in Outcomes, applied \in BOOLEAN :
       LET on == get_adaptive_on(ha_get_state(hub, "switch", oa))
           data == ha_get_state(hub, "light", ol)
           raises == RaisesKeyError(data)
           f == Fault(oa)
                + (IF on THEN Fault(ol) ELSE 0)
                + (IF on /\ ~raises /\ ~applied THEN 1 ELSE 0) IN
       /\ nfaults + f <= start.faults
       /\ nfaults' = nfaults + f
       /\ current' = on
       /\ IF ~on
          THEN \* "BTN4: Natural is OFF, ignoring"
               /\ ol = "ok" /\ applied
               /\ UNCHANGED <<hub, mutPending, sent, ncalls, nrec, rid, during,
                              owed, pc, info, got>>
          ELSE IF raises
          THEN /\ applied
               /\ Raise("cb")
               /\ UNCHANGED <<hub, mutPending, ncalls, nrec, owed, got>>
          ELSE /\ info' = get_light_info(data)
               /\ ha_call_service(cycle_color_temp(get_light_info(data)), applied)
               /\ HandlerRefresh
  /\ UNCHANGED <<start, state_cache, tags, image, display, epdBusy, nticks,
                 slept, timev>>

\* ------------------------------------------------------------------ main
\* line 250: the boot refresh
Boot ==
  /\ pc["main"] = "boot"
  /\ CallRefresh("main")
  /\ pc' = [pc EXCEPT !["main"] = "rd_light"]
  /\ UNCHANGED <<hub, start, state_cache, tags, presses, info, current, sent,
                 ncalls, image, display, epdBusy, nticks, nfaults, mutPending,
                 owed, slept, timev>>

\* line 255: now - last > REFRESH_INTERVAL, with now the time just sampled;
\* where time is not followed the interval may have elapsed at any iteration
Due == start.timed => clock - last > REFRESH_INTERVAL

\* lines 254-256: the loop samples the time, finds the interval elapsed and
\* refreshes
Tick ==
  /\ pc["main"] = "loop"
  /\ nticks < start.ticks
  /\ Due
  /\ now' = clock
  /\ nticks' = nticks + 1
  /\ owed' = nrec
  /\ CallRefresh("main")
  /\ pc' = [pc EXCEPT !["main"] = "rd_light"]
  /\ UNCHANGED <<hub, start, state_cache, tags, presses, info, current, sent,
                 ncalls, image, display, epdBusy, nfaults, mutPending, slept,
                 clock, last, ended>>

\* SIGINT: KeyboardInterrupt is raised in the main thread wherever it is
\* inside the try block, also in the middle of refresh_display
Interrupt ==
  /\ pc["main"] \in {"boot", "loop"} \cup RefreshPcs
  /\ pc' = [pc EXCEPT !["main"] = "except"]
  /\ rid' = [rid EXCEPT !["main"] = 0]
  /\ during' = [during EXCEPT !["main"] = 0]
  /\ epdBusy' = epdBusy \ {"main"}
  /\ image' = [image EXCEPT !["main"] = NoImage]
  /\ got' = [got EXCEPT !["main"] = NoReads]
  /\ UNCHANGED <<hub, start, state_cache, tags, nrec, presses, info, current,
                 sent, ncalls, display, nticks, nfaults, mutPending, owed,
                 slept, timev>>

\* lines 259-261: the handler puts the display to sleep, main() returns
EpdSleep ==
  /\ pc["main"] = "except"
  /\ slept' = TRUE
  /\ pc' = [pc EXCEPT !["main"] = "exit"]
  /\ UNCHANGED <<hub, start, state_cache, tags, rid, nrec, presses, info,
                 current, sent, ncalls, image, display, epdBusy, nticks,
                 nfaults, during, mutPending, owed, got, timev>>

MainStep == Boot \/ Tick \/ Refresh("main")
Handler == on_btn1 \/ on_btn2 \/ on_btn3 \/ on_btn4
CbStep == Handler \/ Refresh("cb")

Next ==
  \/ MainStep
  \/ CbStep
  \/ Interrupt
  \/ EpdSleep

Spec == Init /\ [][Next]_vars

\* ------------------------------------------------- button-only behaviours
\* The window between two timer refreshes: the boot reconciliation has
\* completed without a fault, the main loop sleeps, only buttons act.  The
\* hub is drawn from the whole range of what the light entity can report;
\* failing requests are explored from the hubs of Init.
HubBrightness == 0..255
HubMireds == {0, 153, 166, 200, 250, 298, 299, 333, 370, 500}

SeqHubs ==
  {[state |-> "on", brightness |-> b, color_temp |-> 370, adaptive |-> a] :
     b \in HubBrightness \cup {NONE}, a \in BOOLEAN}
  \cup
  {[state |-> "on", brightness |-> 128, color_temp |-> m, adaptive |-> a] :
     m \in HubMireds \cup {NONE}, a \in BOOLEAN}
  \cup
  {[state |-> "off", brightness |-> NONE, color_temp |-> NONE, adaptive |-> a] :
     a \in BOOLEAN}

InitSeq ==
  /\ hub \in SeqHubs
  /\ state_cache = InitialCache(hub, "ok")
  /\ tags = [light |-> 1, weather |-> 1, adaptive |-> 1]
  /\ pc = [t \in Threads |-> IF t = "main" THEN "loop" ELSE "idle"]
  /\ rid = [t \in Threads |-> 0]
  /\ nrec = 1
  /\ start = [hub |-> hub, faults |-> IF hub \in FaultHubs THEN MaxFaults ELSE 0,
              ticks |-> MaxTicks, timed |-> FALSE]
  /\ presses = <<>>
  /\ info = UnknownLight
  /\ current = FALSE
  /\ sent = NoCall
  /\ ncalls = 0
  /\ image = [t \in Threads |-> NoImage]
  /\ display = [panel |-> HubPanel(hub), srcs |-> {}]
  /\ epdBusy = {}
  /\ nticks = 0
  /\ nfaults = 0
  /\ during = [t \in Threads |-> 0]
  /\ mutPending = FALSE
  /\ owed = NONE
  /\ slept = FALSE
  /\ got = [t \in Threads |-> NoReads]
  /\ clock = 0 /\ now = 0 /\ last = 0 /\ ended = 0

NextSeq == CbStep

SpecSeq == InitSeq /\ [][NextSeq]_vars

\* ------------------------------------------------------ timed behaviours
\* The main thread alone, with the wall clock followed in whole seconds:
\* time passes between any two steps of the loop and of refresh_display (the
\* HTTP reads, the e-paper push and time.sleep(0.5) all take time), no
\* request fails and no button is pressed.
Advance ==
  /\ start.timed /\ Alive
  /\ clock < MaxClock
  /\ clock' = clock + 1
  /\ UNCHANGED <<hub, start, state_cache, tags, pc, rid, nrec, presses, info,
                 current, sent, ncalls, image, display, epdBusy, nticks,
                 nfaults, during, mutPending, owed, slept, got, now, last,
                 ended>>

InitTime ==
  /\ hub \in FaultHubs
  /\ state_cache = InitialCache(hub, "ok")
  /\ pc = [t \in Threads |-> IF t = "main" THEN "boot" ELSE "idle"]
  /\ display = NoImage
  /\ start = [hub |-> hub, faults |-> 0, ticks |-> MaxTicks + 1, timed |-> TRUE]
  /\ InitCommon

NextTime == MainStep \/ Advance

SpecTime == InitTime /\ [][NextTime]_vars

\* ============================================================== claims

\* C1: at any time at most one reconciliation (refresh_display) is
\* executing, and two epd.display pushes never overlap.
C1_OneReconciliation ==
  nfaults = 0 =>
    /\ Cardinality({t \in Threads : rid[t] # 0}) <= 1
    /\ Cardinality(epdBusy) <= 1

\* C2: refresh triggers that arrive while a reconciliation is in flight are
\* coalesced: the reconciliations run on their behalf number at most one,
\* never one per trigger.
C2_Coalesced == nfaults = 0 => \A t \in Threads : during[t] <= 1

\* C3: every draw_panel call renders a light, a weather and an adaptive
\* value that one and the same reconciliation stored in state_cache.
C3_WholeSnapshot ==
  nfaults = 0 =>
    \A t \in Threads : pc[t] = "pushing" => Cardinality(image[t].srcs) = 1

\* C4: every accepted trigger is eventually followed by a reconciliation
\* that starts after it and reaches the display push; so the process never
\* ends by an error while an accepted trigger is still unserved.
C4_TriggerServed == pc["main"] = "crashed" => owed = NONE

\* thread t evaluates line 204's arguments and begins the push
DrawStep(t) == pc[t] = "draw" /\ pc'[t] = "pushing"

\* C5: after a press's mutation was applied, the very next panel pushed
\* shows the hub's post-mutation light and mode (no remote request failed).
C5_NextPushShowsMutation ==
  [][\A t \in Threads :
       (DrawStep(t) /\ mutPending /\ nfaults = 0)
         => Shown(image'[t].panel) = Shown(HubPanel(hub))]_vars

\* the callback thread is past its handler's service call, inside the
\* handler's own reconciliation: info and sent are that handler's
InHandlerRefresh(b) == btn = b /\ pc["cb"] \in RefreshPcs

\* C6: a press of Button 4 whose adaptive check is off (the switch is off,
\* or the mode read failed and defaulted to off) makes no service call,
\* starts no reconciliation, pushes nothing and leaves state_cache alone.
C6_Button4OffNoEffect ==
  [][(presses' = Append(presses, 4) /\ (~current' \/ ~hub.adaptive))
       => /\ pc'["cb"] = "idle"
          /\ UNCHANGED <<hub, state_cache, tags, ncalls, sent, nrec, rid,
                         image, display, epdBusy, owed>>]_vars

\* C6 witness: Button 4 was pressed with the switch on, the mode read
\* failed, and the handler returned
C6_Witness ==
  /\ presses = <<4>> /\ hub.adaptive /\ ~current
  /\ nfaults = 1 /\ pc["cb"] = "idle"

\* C7: with b the brightness the press's own light read reported (128 only
\* when it is unknown), Button 2 sends min(255, max(1, b + 25)) and Button 3
\* sends min(255, max(1, b - 25)), always within 1..255.
C7_StepClamped ==
  \A b \in {2, 3} :
    InHandlerRefresh(b) =>
      LET cur == IF info.brightness = NONE THEN 128 ELSE info.brightness
          d == IF b = 2 THEN 25 ELSE 0 - 25
      IN  /\ sent.brightness = Min(255, Max(1, cur + d))
          /\ sent.brightness \in 1..255

\* Button 2 then Button 3 were pressed from a known brightness, both calls
\* were applied and every read succeeded
RoundTripDone ==
  /\ presses = <<2, 3>> /\ ncalls = 2 /\ nfaults = 0
  /\ hub0.brightness # NONE

\* C8 as stated: Button 2 then Button 3 from 26 <= b <= 230 returns the
\* light to b, and the round trip fails only where the clamp cut the first
\* step (b + 25 > 255).
C8_RoundTripOnlyClamp ==
  RoundTripDone =>
    /\ hub0.brightness \in 26..230 => hub.brightness = hub0.brightness
    /\ hub.brightness # hub0.brightness => hub0.brightness + 25 > 255

\* C8 as amended: Button 2 then Button 3 from 26 <= b <= 230 returns the
\* light to b (from 250: 255 then 230); the round trip fails only where the
\* clamp cut the first step or where b = 0, which the handler takes for
\* unknown (153 then 128).
C8_RoundTrip ==
  RoundTripDone =>
    /\ hub0.brightness \in 26..230 => hub.brightness = hub0.brightness
    /\ hub0.brightness = 250 => hub.brightness = 230
    /\ hub.brightness # hub0.brightness =>
         (hub0.brightness + 25 > 255 \/ hub0.brightness = 0)

\* C8 witness: the round trip from 230, the largest brightness it preserves
C8_Witness == RoundTripDone /\ hub0.brightness = 230 /\ hub.brightness = 230

\* Button 4's reconciliation has read back the mired its service call sent
ReadBack ==
  /\ InHandlerRefresh(4)
  /\ tags.light = rid["cb"]
  /\ sent.color_temp # NONE
  /\ state_cache.light.mired = sent.color_temp

\* C9 as stated: for each preset K, the kelvin get_light_info derives from
\* the mired set_light(kelvin=K) sent is within 1 of K.
C9_RoundTripWithin1 ==
  \A K \in {WARM_K, NEUTRAL_K, COOL_K} :
    (ReadBack /\ NextKelvin(info) = K) => Abs(state_cache.light.kelvin - K) <= 1

\* C9 as amended: for each preset K, the recovered kelvin is within 24 of K
\* (2700 -> 370 -> 2702, 4000 -> 250 -> 4000, 6000 -> 166 -> 6024).
C9_RoundTripWithin24 ==
  \A K \in {WARM_K, NEUTRAL_K, COOL_K} :
    (ReadBack /\ NextKelvin(info) = K) => Abs(state_cache.light.kelvin - K) <= 24

\* C9 witness: 6000 K was sent as 166 mired and read back as 6024 K
C9_Witness ==
  ReadBack /\ NextKelvin(info) = COOL_K /\ state_cache.light.kelvin = 6024

\* the claim's rule, stated on its own: nearest preset, first on a tie, and
\* from there the next preset in the order 2700, 4000, 6000, wrapping
ClaimNearest(k) ==
  CHOOSE i \in 1..3 :
    \A j \in 1..3 :
      \/ Abs(k - presets[i]) < Abs(k - presets[j])
      \/ Abs(k - presets[i]) = Abs(k - presets[j]) /\ i <= j
ClaimNext(kelvin) ==
  LET k == IF kelvin = NONE THEN 4000 ELSE kelvin
      i == ClaimNearest(k)
  IN  IF i = 1 THEN 4000 ELSE IF i = 2 THEN 6000 ELSE 2700

\* C10: cycle_color_temp sets the light to the preset after the one nearest
\* the current kelvin (4000 when unknown, first preset on a tie):
\* 2700 gives 4000, 4000 gives 6000, 6000 gives 2700, 3000 gives 4000.
C10_CycleNext ==
  /\ InHandlerRefresh(4) => sent.color_temp = 1000000 \div ClaimNext(info.kelvin)
  /\ NextKelvin([UnknownLight EXCEPT !.kelvin = 2700]) = 4000
  /\ NextKelvin([UnknownLight EXCEPT !.kelvin = 4000]) = 6000
  /\ NextKelvin([UnknownLight EXCEPT !.kelvin = 6000]) = 2700
  /\ NextKelvin([UnknownLight EXCEPT !.kelvin = 3000]) = 4000

\* C10 witness: a tie (5000 K is as far from 4000 as from 6000) goes to
\* 4000, so 6000 K is sent as 166 mired
C10_Witness ==
  InHandlerRefresh(4) /\ info.kelvin = 5000 /\ sent.color_temp = 166

\* the light {on, brightness 128, color_temp 370} with adaptive mode off
ExampleHub ==
  [state |-> "on", brightness |-> 128, color_temp |-> 370, adaptive |-> FALSE]

\* Button 1 was pressed once on ExampleHub, every request succeeded and the
\* handler has returned
ToggleDone ==
  /\ presses = <<1>> /\ pc["cb"] = "idle" /\ nfaults = 0
  /\ hub0 = ExampleHub

\* C11: Button 1 reads the mode and issues exactly one switch call, turn_off
\* when the mode read is on and turn_on otherwise, then reconciles; on the
\* light {on, 128, 370} with mode off the resulting snapshot has adaptive
\* true, the same light values, and the panel shows "MODE: NATURAL".
C11_Toggle ==
  /\ [][presses' = Append(presses, 1) =>
          /\ ncalls' = ncalls + 1
          /\ sent'.domain = "switch"
          /\ sent'.service = (IF current' THEN "turn_off" ELSE "turn_on")
          /\ (nfaults' = nfaults => current' = hub.adaptive)
          /\ pc'["cb"] = "rd_light"]_vars
  /\ [][pc["cb"] \in RefreshPcs => ncalls' = ncalls]_vars
  /\ [](ToggleDone =>
          /\ state_cache.adaptive
          /\ state_cache.light.state = "on"
          /\ state_cache.light.brightness = 128
          /\ state_cache.light.mired = 370
          /\ display.panel.mode = "MODE: NATURAL"
          /\ display.panel.lights = "on")

\* C11 witness: the example's press has completed and the panel shows the
\* mode turned on
C11_Witness ==
  ToggleDone /\ hub.adaptive /\ display.panel.mode = "MODE: NATURAL"

\* C12: no outcome of a remote read or service call ends the main loop or
\* aborts a button handler: no thread dies by an error, and the callback
\* thread is never back at rest with a reconciliation cut short.
C12_NoFatalRemoteError ==
  /\ pc["main"] # "crashed"
  /\ pc["cb"] # "dead"
  /\ pc["cb"] = "idle" => got["cb"] = NoReads

\* the weather response under outcome o is absent or has no temperature
WeatherMissing(o) ==
  LET data == ha_get_state(hub, "weather", o)
  IN  data.none \/ data.temperature = NONE

\* C13: a reconciliation whose weather read is absent or has no temperature
\* goes on to the mode read with weather = None stored, and renders no
\* weather section; one whose mode read is absent goes on to the push with
\* adaptive = False stored; neither is cut short by an error.
C13_Fallbacks ==
  \A t \in Threads :
    /\ (got[t].weather # "-" /\ WeatherMissing(got[t].weather)) =>
         /\ pc[t] \in {"rd_adaptive", "draw", "pushing"}
         /\ tags.weather = rid[t] => state_cache.weather = NoWeather
         /\ (pc[t] = "pushing" /\ image[t].srcs = {rid[t]})
              => ~image[t].panel.weather
    /\ got[t].switch = "absent" =>
         /\ pc[t] \in {"draw", "pushing"}
         /\ tags.adaptive = rid[t] => ~state_cache.adaptive

\* the main thread takes the KeyboardInterrupt / calls epd.sleep()
InterruptStep == pc["main"] # "except" /\ pc'["main"] = "except"
SleepStep == ~slept /\ slept'

\* C14: on the interrupt a reconciliation in flight first runs to
\* completion, then epd.sleep() is called: the interrupt cuts no
\* reconciliation of the main thread short, and when epd.sleep() is called
\* no reconciliation and no display push is in flight in any thread.
C14_DrainThenSleep ==
  [][/\ InterruptStep => rid["main"] = 0
     /\ SleepStep => (epdBusy = {} /\ \A t \in Threads : rid[t] = 0)]_vars

\* C15: a timer-driven reconciliation starts only when more than
\* REFRESH_INTERVAL seconds have passed since the end of the previous
\* reconciliation.
C15_IntervalFromEnd ==
  [][nticks' = nticks + 1 => clock - ended > REFRESH_INTERVAL]_vars

\* two brightness buttons were pressed one after the other, both calls were
\* applied, every read succeeded, and the second handler is reconciling
SecondOf(first, second) ==
  /\ presses = <<first, second>> /\ ncalls = 2 /\ nfaults = 0
  /\ InHandlerRefresh(second)

C17_CallBeforeReads ==
  \A b \in 1..4 :
    InHandlerRefresh(b) =>
      /\ sent # NoCall
      /\ ncalls >= 1
      /\ (nfaults = 0 /\ tags.light = rid["cb"]) =>
            /\ sent.brightness # NONE => state_cache.light.brightness = sent.brightness
            /\ sent.color_temp # NONE => state_cache.light.mired = sent.color_temp
      /\ (nfaults = 0 /\ tags.adaptive = rid["cb"] /\ sent.domain = "switch") =>
            state_cache.adaptive = (sent.service = "turn_on")

\* C17 witness: Button 2 sent 153 and its reconciliation has read 153 back
C17_Witness ==
  /\ InHandlerRefresh(2) /\ nfaults = 0 /\ tags.light = rid["cb"]
  /\ sent.brightness = 153 /\ state_cache.light.brightness = 153

\* C18: with adaptive mode on, Button 4's service call leaves the light's
\* brightness as the press's light read reported it (0..255 or unknown).
C18_BrightnessPreserved ==
  (presses = <<4>> /\ InHandlerRefresh(4)) => hub.brightness = hub0.brightness

\* round(b / 255 * 100) for b in 0..255 (no value falls on a half)
RoundPct(b) == (b * 200 + 255) \div 510

\* C19: the brightness_pct get_light_info derives is round(b/255*100), lies
\* in 0..100, and is absent exactly when the brightness is absent.
C19_PctRounded ==
  LET l == state_cache.light IN
  /\ l.brightness_pct = NONE <=> l.brightness = NONE
  /\ l.brightness \in 0..255 =>
       (l.brightness_pct = RoundPct(l.brightness) /\ l.brightness_pct \in 0..100)

\* the mireds of the three presets as set_light sends them, and the claim's
\* cyclic order 2700, 4000, 6000, 2700 on them
PresetMireds == {370, 250, 166}
NextMired(m) == IF m = 370 THEN 250 ELSE IF m = 250 THEN 166 ELSE 370

\* Button 4 was pressed with adaptive mode on, every request succeeded and
\* the call was applied
CycleStep ==
  /\ presses' = Append(presses, 4) /\ current' /\ sent' # NoCall
  /\ nfaults' = nfaults

\* C20: every applied Button 4 press sets the light to a preset, and from
\* the mired of a preset (as a previous press set it and the light reports
\* it back) to the next preset in the order 2700, 4000, 6000, 2700: no
\* press repeats or skips a preset.
C20_CyclicOrder ==
  [][CycleStep =>
       /\ sent'.color_temp \in PresetMireds
       /\ hub'.color_temp = sent'.color_temp
       /\ hub.color_temp \in PresetMireds
            => sent'.color_temp = NextMired(hub.color_temp)]_vars

\* C20 witness: from 500 mired (2000 K) the first press set 4000 K and the
\* second 6000 K
C20_Witness ==
  /\ presses = <<4, 4>> /\ ncalls = 2 /\ nfaults = 0
  /\ hub0.color_temp = 500 /\ hub.color_temp = 166

====
